---- MODULE Spec2Model ----
(***************************************************************************)
(* Model of examples/dvbinfo/getaddrinfo.c: the IPv4-only getaddrinfo(),   *)
(* getnameinfo(), freeaddrinfo() and gai_strerror() of the OS/2 kLIBC port. *)
(*                                                                         *)
(* C strings are sequences of one-character strings (without the NUL).     *)
(* A u_long holding an address in network byte order is the tuple of its   *)
(* four bytes in memory order, so <<127,0,0,1>> is htonl(INADDR_LOOPBACK). *)
(* Pointers are block numbers handed out by malloc; NULL is 0.             *)
(***************************************************************************)
EXTENDS Integers, Sequences, FiniteSets, TLC

VARIABLES
    \* ---- gai_strerror ----
    errnum,      \* the argument of the running / last gai_strerror call
    i,           \* the loop index of gai_strerror
    msg,         \* the string returned, NoMsg while the loop runs
    prev,        \* the previous finished call: [code, msg], or NoCall
    \* ---- getnameinfo ----
    ni,          \* the last getnameinfo call: its arguments and what it did
    \* ---- getaddrinfo / freeaddrinfo ----
    mem,         \* contents of every block malloc ever returned
    live,        \* the blocks allocated and not freed
    brk,         \* number of blocks malloc has handed out
    dfree,       \* TRUE once free() was given a block that was not live
    res,         \* the caller's struct addrinfo *res
    h_errno,     \* the resolver library's global error state
    errno,       \* the C library's errno
    gai          \* the last getaddrinfo / freeaddrinfo call and what it did

vars == <<errnum, i, msg, prev, ni, mem, live, brk, dfree, res, h_errno, errno, gai>>

errVars == <<errnum, i, msg, prev>>
resVars == <<mem, live, brk, dfree, res, h_errno, errno, gai>>

-----------------------------------------------------------------------------
(* Program constants.                                                      *)

EAI_BADFLAGS == -1
EAI_NONAME == -2
EAI_AGAIN == -3
EAI_FAIL == -4
EAI_NODATA == -5
EAI_FAMILY == -6
EAI_SOCKTYPE == -7
EAI_SERVICE == -8
EAI_ADDRFAMILY == -9
EAI_MEMORY == -10
EAI_OVERFLOW == -11
EAI_SYSTEM == -12

NI_NUMERICHOST == 1
NI_NUMERICSERV == 2
NI_NOFQDN == 4
NI_NAMEREQD == 8
NI_DGRAM == 16

AI_PASSIVE == 1
AI_CANONNAME == 2
AI_NUMERICHOST == 4

\* values of the platform headers the code is compiled against
AF_UNSPEC == 0
AF_INET == 2
SOCK_STREAM == 1
SOCK_DGRAM == 2
SOCK_RAW == 3
IPPROTO_TCP == 6
IPPROTO_UDP == 17
HOST_NOT_FOUND == 1
TRY_AGAIN == 2
NO_RECOVERY == 3
NO_DATA == 4
ENOMEM == 12
SockaddrInLen == 16

NULL == 0

-----------------------------------------------------------------------------
(* Bit operations on small non-negative integers.                          *)

RECURSIVE BitAnd(_, _)
BitAnd(a, b) ==
    IF a = 0 \/ b = 0 THEN 0
    ELSE (IF a % 2 = 1 /\ b % 2 = 1 THEN 1 ELSE 0) + 2 * BitAnd(a \div 2, b \div 2)

\* a & ~mask
AndNot(a, mask) == a - BitAnd(a, mask)

-----------------------------------------------------------------------------
(* gai_strerror                                                            *)

gai_errlist_noSystem ==
    << [code |-> 0,              msg |-> "Error 0"],
       [code |-> EAI_BADFLAGS,   msg |-> "Invalid flag used"],
       [code |-> EAI_NONAME,     msg |-> "Host or service not found"],
       [code |-> EAI_AGAIN,      msg |-> "Temporary name service failure"],
       [code |-> EAI_FAIL,       msg |-> "Non-recoverable name service failure"],
       [code |-> EAI_NODATA,     msg |-> "No data for host name"],
       [code |-> EAI_FAMILY,     msg |-> "Unsupported address family"],
       [code |-> EAI_SOCKTYPE,   msg |-> "Unsupported socket type"],
       [code |-> EAI_SERVICE,    msg |-> "Incompatible service for socket type"],
       [code |-> EAI_ADDRFAMILY, msg |-> "Unavailable address family for host name"],
       [code |-> EAI_MEMORY,     msg |-> "Memory allocation failure"],
       [code |-> EAI_OVERFLOW,   msg |-> "Buffer overflow"],
       [code |-> 0,              msg |-> ""] >>

gai_errlist ==
    << [code |-> 0,              msg |-> "Error 0"],
       [code |-> EAI_BADFLAGS,   msg |-> "Invalid flag used"],
       [code |-> EAI_NONAME,     msg |-> "Host or service not found"],
       [code |-> EAI_AGAIN,      msg |-> "Temporary name service failure"],
       [code |-> EAI_FAIL,       msg |-> "Non-recoverable name service failure"],
       [code |-> EAI_NODATA,     msg |-> "No data for host name"],
       [code |-> EAI_FAMILY,     msg |-> "Unsupported address family"],
       [code |-> EAI_SOCKTYPE,   msg |-> "Unsupported socket type"],
       [code |-> EAI_SERVICE,    msg |-> "Incompatible service for socket type"],
       [code |-> EAI_ADDRFAMILY, msg |-> "Unavailable address family for host name"],
       [code |-> EAI_MEMORY,     msg |-> "Memory allocation failure"],
       [code |-> EAI_OVERFLOW,   msg |-> "Buffer overflow"],
       [code |-> EAI_SYSTEM,     msg |-> "System error"],
       [code |-> 0,              msg |-> ""] >>

gai_unknownerr == "Unrecognized error number"

NoMsg == "<running>"
NoCall == [code |-> 0, msg |-> NoMsg]

\* the error numbers the calls are made with: MinErr .. MaxErr and one far value
MaxErr == 3
MinErr == EAI_SYSTEM - MaxErr
FarErr == 0 - 999
ErrInputs == (MinErr .. MaxErr) \cup {FarErr}

\* the call is entered: i = 0
GaiStrerrorCall ==
    /\ msg # NoMsg
    /\ \E e \in ErrInputs : errnum' = e
    /\ i' = 0
    /\ msg' = NoMsg
    /\ prev' = [code |-> errnum, msg |-> msg]

\* one iteration whose test fails: i++
GaiStrerrorStep ==
    /\ msg = NoMsg
    /\ gai_errlist[i + 1].msg # ""
    /\ errnum # gai_errlist[i + 1].code
    /\ i' = i + 1
    /\ UNCHANGED <<errnum, msg, prev>>

\* return gai_errlist[i].msg
GaiStrerrorFound ==
    /\ msg = NoMsg
    /\ gai_errlist[i + 1].msg # ""
    /\ errnum = gai_errlist[i + 1].code
    /\ msg' = gai_errlist[i + 1].msg
    /\ UNCHANGED <<errnum, i, prev>>

\* the loop reached the terminating entry: return gai_unknownerr
GaiStrerrorUnknown ==
    /\ msg = NoMsg
    /\ gai_errlist[i + 1].msg = ""
    /\ msg' = gai_unknownerr
    /\ UNCHANGED <<errnum, i, prev>>

-----------------------------------------------------------------------------
(* C strings and the C library routines the code calls.                    *)

Digits == {"0", "1", "2", "3", "4", "5", "6", "7", "8", "9"}
HexDigits == Digits \cup {"a", "b", "c", "d", "e", "f", "A", "B", "C", "D", "E", "F"}
OctDigits == {"0", "1", "2", "3", "4", "5", "6", "7"}

DigitVal(c) ==
    CASE c = "0" -> 0 [] c = "1" -> 1 [] c = "2" -> 2 [] c = "3" -> 3
      [] c = "4" -> 4 [] c = "5" -> 5 [] c = "6" -> 6 [] c = "7" -> 7
      [] c = "8" -> 8 [] c = "9" -> 9
      [] c \in {"a", "A"} -> 10 [] c \in {"b", "B"} -> 11 [] c \in {"c", "C"} -> 12
      [] c \in {"d", "D"} -> 13 [] c \in {"e", "E"} -> 14 [] c \in {"f", "F"} -> 15

DigitChar(d) == <<"0", "1", "2", "3", "4", "5", "6", "7", "8", "9">>[d + 1]

Min(a, b) == IF a < b THEN a ELSE b

\* an optional string argument: a NULL pointer, or a pointer to the string s
NoStr == <<>>
Str(s) == <<s>>

\* the value of the digit string s in the given base
RECURSIVE NumVal(_, _)
NumVal(s, base) ==
    IF s = <<>> THEN 0
    ELSE NumVal(SubSeq(s, 1, Len(s) - 1), base) * base + DigitVal(s[Len(s)])

\* the length of the longest prefix of s made of characters of set
RECURSIVE Span(_, _)
Span(s, set) ==
    IF s = <<>> \/ s[1] \notin set THEN 0 ELSE 1 + Span(Tail(s), set)

\* "%u": the decimal text of n >= 0
RECURSIVE UDec(_)
UDec(n) == IF n < 10 THEN <<DigitChar(n)>> ELSE UDec(n \div 10) \o <<DigitChar(n % 10)>>

\* strtoul (s, &end, 0) for a string without white space or sign and short
\* enough not to overflow: [d |-> the value, end |-> the unparsed rest]
strtoul(s) ==
    LET hex == /\ Len(s) >= 3
               /\ s[1] = "0"
               /\ s[2] \in {"x", "X"}
               /\ s[3] \in HexDigits
        oct == Len(s) >= 1 /\ s[1] = "0"
    IN  IF hex
        THEN LET n == Span(SubSeq(s, 3, Len(s)), HexDigits)
             IN  [d |-> NumVal(SubSeq(s, 3, 2 + n), 16), end |-> SubSeq(s, 3 + n, Len(s))]
        ELSE IF oct
        THEN LET n == Span(s, OctDigits)
             IN  [d |-> NumVal(SubSeq(s, 1, n), 8), end |-> SubSeq(s, n + 1, Len(s))]
        ELSE LET n == Span(s, Digits)
             IN  [d |-> NumVal(SubSeq(s, 1, n), 10), end |-> SubSeq(s, n + 1, Len(s))]

\* htons / ntohs on the little-endian host: the two bytes swapped
htons(x) == (x % 256) * 256 + (x \div 256)
ntohs(x) == htons(x)

INADDR_ANY == <<0, 0, 0, 0>>
INADDR_LOOPBACK == <<127, 0, 0, 1>>
INADDR_NONE == <<255, 255, 255, 255>>

\* the pieces of s between the dots
RECURSIVE SplitDots(_)
SplitDots(s) ==
    LET n == Span(s, {s[k] : k \in 1..Len(s)} \ {"."})
    IN  IF n = Len(s) THEN <<s>>
        ELSE <<SubSeq(s, 1, n)>> \o SplitDots(SubSeq(s, n + 2, Len(s)))

\* inet_addr (cp) for the four-part decimal form: the address in network byte
\* order, INADDR_NONE when cp is not such an address
inet_addr(cp) ==
    LET p == SplitDots(cp)
        ok(x) == /\ x # <<>>
                 /\ Len(x) <= 3
                 /\ Span(x, Digits) = Len(x)
                 /\ NumVal(x, 10) <= 255
    IN  IF Len(p) = 4 /\ \A k \in 1..4 : ok(p[k])
        THEN <<NumVal(p[1], 10), NumVal(p[2], 10), NumVal(p[3], 10), NumVal(p[4], 10)>>
        ELSE INADDR_NONE

\* snprintf (buf, size, ...) producing text. size is the int the caller passed,
\* converted to size_t: a negative int becomes a size above INT_MAX, for which
\* a C99 library formats without bound and a POSIX library fails with -1 and
\* writes nothing (libc chooses). Result: the value returned, the indices of
\* buf written, and the string left in buf.
snprintf(size, text, libc) ==
    IF size = 0 \/ (size < 0 /\ libc = "posix")
    THEN [ret |-> IF size = 0 THEN Len(text) ELSE -1, written |-> {}, str |-> NoStr]
    ELSE LET n == IF size < 0 THEN Len(text) ELSE Min(Len(text), size - 1)
         IN  [ret |-> Len(text), written |-> 0..n, str |-> Str(SubSeq(text, 1, n))]

-----------------------------------------------------------------------------
(* getnameinfo                                                             *)

NI_MASK == NI_NUMERICHOST + NI_NUMERICSERV + NI_NOFQDN + NI_NAMEREQD + NI_DGRAM

\* "%u.%u.%u.%u" of ntohl (s_addr) >> 24, >> 16 & 0xff, >> 8 & 0xff, & 0xff:
\* the four bytes of the address in memory order
Dotted(s_addr) ==
    UDec(s_addr[1]) \o <<".">> \o UDec(s_addr[2]) \o <<".">>
        \o UDec(s_addr[3]) \o <<".">> \o UDec(s_addr[4])

Overflows_gt(r, len) == r > len

\* snprintf (...) >= (int)len
Overflows(r, len) == r >= len

\* sa: [sa_family, sin_port, sin_addr]; host, serv: TRUE when the pointer is
\* not NULL. Result: the value returned, the strings left in the two buffers
\* and the indices written in each.
getnameinfo(sa, salen, host, hostlen, serv, servlen, flags, libc) ==
    LET none == [ret |-> 0, host |-> NoStr, hostW |-> {}, serv |-> NoStr, servW |-> {}]
        h == snprintf(hostlen, Dotted(sa.sin_addr), libc)
        s == snprintf(servlen, UDec(ntohs(sa.sin_port)), libc)
        afterHost == IF host THEN [none EXCEPT !.host = h.str, !.hostW = h.written]
                     ELSE none
    IN  IF salen < SockaddrInLen \/ sa.sa_family # AF_INET
        THEN [none EXCEPT !.ret = EAI_FAMILY]
        ELSE IF AndNot(flags, NI_MASK) # 0
        THEN [none EXCEPT !.ret = EAI_BADFLAGS]
        ELSE IF host /\ BitAnd(flags, NI_NUMERICHOST) = 0 /\ BitAnd(flags, NI_NAMEREQD) # 0
        THEN [none EXCEPT !.ret = EAI_NONAME]
        ELSE IF host /\ Overflows(h.ret, hostlen)
        THEN [afterHost EXCEPT !.ret = EAI_OVERFLOW]
        ELSE IF serv /\ Overflows(s.ret, servlen)
        THEN [afterHost EXCEPT !.ret = EAI_OVERFLOW, !.serv = s.str, !.servW = s.written]
        ELSE IF serv
        THEN [afterHost EXCEPT !.serv = s.str, !.servW = s.written]
        ELSE afterHost

\* the capacities the calls are made with: -1 .. MaxHostCap and -1 .. MaxServCap
MaxHostCap == 16
MaxServCap == 6

NiAddrs == {<<192, 168, 1, 1>>, <<0, 0, 0, 0>>, <<255, 255, 255, 255>>}
NiPorts == {0, 80, 8080, 65535}
NiFlags == {0, NI_NUMERICHOST, NI_NUMERICHOST + NI_NUMERICSERV, NI_NAMEREQD,
            NI_NAMEREQD + NI_NUMERICHOST, NI_DGRAM + NI_NOFQDN, 32}
NiFamilies == {AF_INET, AF_UNSPEC}
NiSalens == {SockaddrInLen, SockaddrInLen - 1}

NiNone ==
    [called |-> FALSE, sa |-> [sa_family |-> AF_UNSPEC, sin_port |-> 0, sin_addr |-> INADDR_ANY],
     salen |-> 0, hostp |-> FALSE, hostlen |-> 0, servp |-> FALSE, servlen |-> 0,
     flags |-> 0, ret |-> 0, host |-> NoStr, hostW |-> {}, serv |-> NoStr, servW |-> {}]

\* one call of getnameinfo
GetNameInfo ==
    /\ ~ni.called
    /\ \E a \in NiAddrs, p \in NiPorts, f \in NiFamilies, sl \in NiSalens,
          hp \in BOOLEAN, sp \in BOOLEAN, fl \in NiFlags, libc \in {"c99", "posix"} :
          \E hl \in IF hp THEN -1..MaxHostCap ELSE {0},
             vl \in IF sp THEN -1..MaxServCap ELSE {0} :
            LET sa == [sa_family |-> f, sin_port |-> htons(p), sin_addr |-> a]
                r == getnameinfo(sa, sl, hp, hl, sp, vl, fl, libc)
            IN  ni' = [called |-> TRUE, sa |-> sa, salen |-> sl, hostp |-> hp,
                       hostlen |-> hl, servp |-> sp, servlen |-> vl, flags |-> fl,
                       ret |-> r.ret, host |-> r.host, hostW |-> r.hostW,
                       serv |-> r.serv, servW |-> r.servW]
    /\ UNCHANGED <<errVars, resVars>>

\* the caller has used the results and drops them
NiForget ==
    /\ ni.called
    /\ ni' = NiNone
    /\ UNCHANGED <<errVars, resVars>>

-----------------------------------------------------------------------------
(* The heap: malloc, free, strdup.                                         *)
(* A heap H is [mem, live, brk, dfree] with the bookkeeping of the running *)
(* call: allocs (malloc calls made), failAt (the malloc call that returns  *)
(* NULL, 0 for none), made (the blocks the call obtained).                 *)

\* a caller's pointer variable that was never assigned
Stale == -1

malloc(H, contents) ==
    LET n == H.allocs + 1
        p == H.brk + 1
    IN  IF n = H.failAt
        THEN [H |-> [H EXCEPT !.allocs = n], p |-> NULL]
        ELSE [H |-> [H EXCEPT !.allocs = n, !.brk = p, !.mem = Append(@, contents),
                               !.live = @ \cup {p}, !.made = @ \cup {p}],
              p |-> p]

free(H, p) ==
    IF p = NULL THEN H
    ELSE IF p \in H.live THEN [H EXCEPT !.live = @ \ {p}]
    ELSE [H EXCEPT !.dfree = TRUE]

-----------------------------------------------------------------------------
(* freeaddrinfo, makeaddrinfo, makeipv4info                                *)

freeaddrinfo(H, r) ==
    IF r = NULL THEN H
    ELSE LET H1 == free(H, H.mem[r].ai_canonname)
             H2 == free(H1, H.mem[r].ai_addr)
             H3 == free(H2, H.mem[r].ai_next)
         IN  free(H3, r)

\* canonname: NoStr for NULL. Result: [H, p], p the record or NULL.
makeaddrinfo(H, af, type, proto, addr, addrlen, canonname) ==
    LET node0 == [kind |-> "addrinfo", ai_flags |-> 0, ai_family |-> af,
                  ai_socktype |-> type, ai_protocol |-> proto, ai_addrlen |-> addrlen,
                  ai_addr |-> NULL, ai_canonname |-> NULL, ai_next |-> NULL]
        a == malloc(H, node0)
        r == a.p
        b == malloc(a.H, [kind |-> "sockaddr"] @@ addr)
        Hb == [b.H EXCEPT !.mem[r].ai_addr = b.p]
        c == malloc(Hb, [kind |-> "string", s |-> canonname[1]])
        Hc == [c.H EXCEPT !.mem[r].ai_canonname = c.p]
    IN  IF r = NULL THEN [H |-> freeaddrinfo(a.H, NULL), p |-> NULL]
        ELSE IF b.p = NULL THEN [H |-> freeaddrinfo(Hb, r), p |-> NULL]
        ELSE IF canonname = NoStr THEN [H |-> Hb, p |-> r]
        ELSE IF c.p = NULL THEN [H |-> freeaddrinfo(Hc, r), p |-> NULL]
        ELSE [H |-> Hc, p |-> r]

makeipv4info(H, type, proto, ip, port, name) ==
    makeaddrinfo(H, AF_INET, type, proto,
                 [sin_family |-> AF_INET, sin_len |-> SockaddrInLen,
                  sin_port |-> port, sin_addr |-> ip],
                 SockaddrInLen, name)

-----------------------------------------------------------------------------
(* gai_error_from_herrno                                                   *)

gai_error_from_herrno(h) ==
    CASE h = HOST_NOT_FOUND -> EAI_NONAME
      [] h = NO_DATA -> EAI_NODATA
      [] h = NO_RECOVERY -> EAI_FAIL
      [] h = TRY_AGAIN -> EAI_AGAIN
      [] OTHER -> EAI_SYSTEM

-----------------------------------------------------------------------------
(* getaddrinfo                                                             *)

AI_MASK == AI_PASSIVE + AI_CANONNAME + AI_NUMERICHOST

NoHints == <<>>
Hints(fl, fam, st, pr) ==
    <<[ai_flags |-> fl, ai_family |-> fam, ai_socktype |-> st, ai_protocol |-> pr]>>

SockProtocol_swapped(socktype) ==
    CASE socktype = SOCK_STREAM -> IPPROTO_UDP
      [] socktype = SOCK_DGRAM -> IPPROTO_TCP
      [] OTHER -> 0

\* the switch on hints->ai_socktype: the protocol it sets
SockProtocol(socktype) ==
    CASE socktype = SOCK_STREAM -> IPPROTO_TCP
      [] socktype = SOCK_DGRAM -> IPPROTO_UDP
      [] OTHER -> 0

\* the checks of the hints: the error returned, 0 when they pass
HintsCheck(hints) ==
    IF hints = NoHints THEN 0
    ELSE LET h == hints[1]
             protocol == SockProtocol(h.ai_socktype)
         IN  IF AndNot(h.ai_flags, AI_MASK) # 0 THEN EAI_BADFLAGS
             ELSE IF h.ai_family # 0 /\ h.ai_family # AF_INET THEN EAI_FAMILY
             ELSE IF h.ai_socktype \notin {SOCK_STREAM, SOCK_DGRAM, SOCK_RAW, 0}
             THEN EAI_SOCKTYPE
             ELSE IF h.ai_protocol # 0 /\ protocol # 0 /\ protocol # h.ai_protocol
             THEN EAI_SERVICE
             ELSE 0

BadService_noEnd(p) == p.d > 65535

\* end[0] || (d > 65535u)
BadService(p) == p.end # <<>> \/ p.d > 65535

\* the blocks malloc can hand out in all; getaddrinfo is entered only while
\* the six blocks one call can ask for are left
MaxBlocks == 6

\* the arguments the calls are made with
S_1234 == <<"1", ".", "2", ".", "3", ".", "4">>
S_bcast == <<"2", "5", "5", ".", "2", "5", "5", ".", "2", "5", "5", ".", "2", "5", "5">>
S_host == <<"h", "o", "s", "t">>
S_0 == <<"0">>
S_8080 == <<"8", "0", "8", "0">>
S_80abc == <<"8", "0", "a", "b", "c">>
S_99999 == <<"9", "9", "9", "9", "9">>

GaiNodes == {NoStr, Str(S_1234), Str(S_bcast), Str(S_host)}
GaiServices == {NoStr, Str(S_0), Str(S_8080), Str(S_80abc), Str(S_99999)}
GaiHints ==
    {NoHints} \cup
    {Hints(fl, fam, st, pr) :
        fl \in {0, AI_PASSIVE, AI_CANONNAME, AI_NUMERICHOST, 8},
        fam \in {AF_UNSPEC, AF_INET, 10},
        st \in {0, SOCK_STREAM, SOCK_DGRAM, SOCK_RAW, 4},
        pr \in {0, IPPROTO_TCP, IPPROTO_UDP}}

\* what gethostbyname can answer: NULL with h_errno set, or an entry
NoEntry == [ok |-> FALSE, h_errno |-> 0]
LookupOutcomes ==
    {[ok |-> FALSE, h_errno |-> e] : e \in {HOST_NOT_FOUND, TRY_AGAIN, NO_RECOVERY, NO_DATA, -1}}
    \cup {[ok |-> TRUE, h_length |-> 4, h_addrtype |-> AF_INET,
           h_addr |-> <<10, 0, 0, 1>>, h_name |-> <<"h", ".", "x">>],
          [ok |-> TRUE, h_length |-> 16, h_addrtype |-> 10,
           h_addr |-> <<0, 0, 0, 0>>, h_name |-> <<"h", ".", "x">>]}

GaiNone ==
    [op |-> "none", pc |-> "idle", node |-> NoStr, service |-> NoStr, hints |-> NoHints,
     arg |-> NULL, live_before |-> {}, res_before |-> NULL, ret |-> 0, lookups |-> 0, entry |-> NoEntry,
     allocs |-> 0, failAt |-> 0, made |-> {},
     flags |-> 0, protocol |-> 0, ip |-> INADDR_ANY, port |-> 0, name |-> NoStr]

Heap == [mem |-> mem, live |-> live, brk |-> brk, dfree |-> dfree,
         allocs |-> 0, failAt |-> 0, made |-> {}]

SetHeap(H) ==
    /\ mem' = H.mem
    /\ live' = H.live
    /\ brk' = H.brk
    /\ dfree' = H.dfree

\* entry to "default values": the hints are checked, *res is cleared and a
\* NULL or numeric node is converted
GaiEnter ==
    /\ gai.pc = "idle"
    /\ gai.op = "none"
    /\ brk + 6 <= MaxBlocks
    /\ \E node \in GaiNodes, service \in GaiServices, hints \in GaiHints :
         LET err == HintsCheck(hints)
             flags == IF hints = NoHints THEN 0 ELSE hints[1].ai_flags
             protocol == IF hints = NoHints THEN 0 ELSE SockProtocol(hints[1].ai_socktype)
             call == [GaiNone EXCEPT !.op = "getaddrinfo", !.node = node,
                                     !.service = service, !.hints = hints,
                                     !.res_before = res]
             ip == IF node = NoStr
                   THEN (IF BitAnd(flags, AI_PASSIVE) # 0 THEN INADDR_ANY ELSE INADDR_LOOPBACK)
                   ELSE inet_addr(node[1])
         IN  IF err # 0
             THEN /\ gai' = [call EXCEPT !.ret = err]
                  /\ res' = res
             ELSE /\ gai' = [call EXCEPT !.flags = flags, !.protocol = protocol, !.ip = ip,
                                         !.pc = IF node # NoStr /\ ip = INADDR_NONE
                                                THEN "lookup" ELSE "service"]
                  /\ res' = NULL
    /\ UNCHANGED <<mem, live, brk, dfree, h_errno, errno, errVars, ni>>

\* "hostname resolution": gethostbyname unless AI_NUMERICHOST, then the entry
GaiLookup ==
    /\ gai.pc = "lookup"
    /\ \E entry \in IF BitAnd(gai.flags, AI_NUMERICHOST) = 0 THEN LookupOutcomes
                    ELSE {NoEntry} :
         LET called == BitAnd(gai.flags, AI_NUMERICHOST) = 0
             herr == IF called /\ ~entry.ok THEN entry.h_errno ELSE h_errno
             g == [gai EXCEPT !.lookups = IF called THEN @ + 1 ELSE @, !.entry = entry]
         IN  /\ h_errno' = herr
             /\ IF ~entry.ok
                THEN gai' = [g EXCEPT !.pc = "idle", !.ret = gai_error_from_herrno(herr)]
                ELSE IF entry.h_length # 4 \/ entry.h_addrtype # AF_INET
                THEN gai' = [g EXCEPT !.pc = "idle", !.ret = EAI_FAMILY]
                ELSE gai' = [g EXCEPT !.pc = "service", !.ip = entry.h_addr,
                                      !.name = IF BitAnd(gai.flags, AI_CANONNAME) # 0
                                               THEN Str(entry.h_name) ELSE NoStr]
    /\ UNCHANGED <<mem, live, brk, dfree, res, errno, errVars, ni>>

\* the canonical name's default and "service resolution"
GaiService ==
    /\ gai.pc = "service"
    /\ LET name == IF BitAnd(gai.flags, AI_CANONNAME) # 0 /\ gai.name = NoStr
                   THEN gai.node ELSE gai.name
           p == strtoul(gai.service[1])
       IN  IF gai.service = NoStr
           THEN gai' = [gai EXCEPT !.name = name, !.port = 0, !.pc = "build"]
           ELSE IF BadService(p)
           THEN gai' = [gai EXCEPT !.name = name, !.pc = "idle", !.ret = EAI_SERVICE]
           ELSE gai' = [gai EXCEPT !.name = name, !.port = htons(p.d), !.pc = "build"]
    /\ UNCHANGED <<mem, live, brk, dfree, res, h_errno, errno, errVars, ni>>

\* info->ai_flags |= AI_PASSIVE when the request has it
Passive(H, info, flags) ==
    IF BitAnd(flags, AI_PASSIVE) # 0
    THEN [H EXCEPT !.mem[info].ai_flags = AI_PASSIVE]
    ELSE H

\* "building results...": the UDP record, then the TCP record in front of it
GaiBuild ==
    /\ gai.pc = "build"
    /\ \E failAt \in 0..6 :
         LET H0 == [Heap EXCEPT !.failAt = failAt]
             wantUdp == gai.protocol = 0 \/ gai.protocol = IPPROTO_UDP
             wantTcp == gai.protocol = 0 \/ gai.protocol = IPPROTO_TCP
             u == makeipv4info(H0, SOCK_DGRAM, IPPROTO_UDP, gai.ip, gai.port, gai.name)
             Hu == IF wantUdp THEN Passive(u.H, u.p, gai.flags) ELSE H0
             resU == IF wantUdp THEN u.p ELSE res
             t == makeipv4info(Hu, SOCK_STREAM, IPPROTO_TCP, gai.ip, gai.port, gai.name)
             Ht == Passive([t.H EXCEPT !.mem[t.p].ai_next = resU], t.p, gai.flags)
             done(H, r, ret) ==
                 /\ SetHeap(H)
                 /\ res' = r
                 /\ errno' = IF ret = 0 THEN errno ELSE ENOMEM
                 /\ gai' = [gai EXCEPT !.pc = "idle", !.ret = ret, !.allocs = H.allocs,
                                       !.failAt = failAt, !.made = H.made]
         IN  IF wantUdp /\ u.p = NULL THEN done(u.H, res, EAI_SYSTEM)
             ELSE IF wantTcp /\ t.p = NULL THEN done(t.H, resU, EAI_SYSTEM)
             ELSE IF wantTcp THEN done(Ht, t.p, 0)
             ELSE done(Hu, resU, 0)
    /\ UNCHANGED <<h_errno, errVars, ni>>

\* the caller releases the list a successful getaddrinfo gave it, or NULL
FreeAddrInfo ==
    /\ gai.pc = "idle"
    /\ \/ res = NULL
       \/ gai.op = "getaddrinfo" /\ gai.ret = 0 /\ res \in live
    /\ SetHeap(freeaddrinfo(Heap, res))
    /\ gai' = [gai EXCEPT !.op = "freeaddrinfo", !.arg = res, !.live_before = live]
    /\ UNCHANGED <<res, h_errno, errno, errVars, ni>>

\* the caller has used the results of the last call and drops its record;
\* the heap, res, h_errno and errno stay as the call left them
GaiForget ==
    /\ gai.pc = "idle"
    /\ gai.op # "none"
    /\ gai' = GaiNone
    /\ UNCHANGED <<mem, live, brk, dfree, res, h_errno, errno, errVars, ni>>

-----------------------------------------------------------------------------
(* Specifications                                                          *)

\* gai_strerror has just been entered with one of the error numbers
InitErr ==
    /\ errnum \in ErrInputs
    /\ i = 0
    /\ msg = NoMsg
    /\ prev = NoCall

InitNi == ni = NiNone

InitRes ==
    /\ mem = <<>>
    /\ live = {}
    /\ brk = 0
    /\ dfree = FALSE
    /\ h_errno = 0
    /\ errno = 0
    /\ gai = GaiNone

\* the caller's res starts as NULL or as an unassigned variable
Init == InitErr /\ errnum = 0 /\ InitNi /\ InitRes /\ res \in {NULL, Stale}

\* the resolver: getaddrinfo and freeaddrinfo
Next == GaiEnter \/ GaiLookup \/ GaiService \/ GaiBuild \/ FreeAddrInfo \/ GaiForget

Spec == Init /\ [][Next]_vars

\* gai_strerror
NextErr ==
    \/ GaiStrerrorCall /\ UNCHANGED <<ni, resVars>>
    \/ GaiStrerrorStep /\ UNCHANGED <<ni, resVars>>
    \/ GaiStrerrorFound /\ UNCHANGED <<ni, resVars>>
    \/ GaiStrerrorUnknown /\ UNCHANGED <<ni, resVars>>

InitE == InitErr /\ InitNi /\ InitRes /\ res = NULL

SpecErr == InitE /\ [][NextErr]_vars

\* getnameinfo
NextNi == GetNameInfo \/ NiForget

InitN == InitErr /\ errnum = 0 /\ InitNi /\ InitRes /\ res = NULL

SpecNi == InitN /\ [][NextNi]_vars

-----------------------------------------------------------------------------
(* Properties of gai_strerror (specification SpecErr)                      *)

DefinedCodes == EAI_SYSTEM .. EAI_BADFLAGS

StrerrorReturned == msg # NoMsg

\* the same code gives the same string as in the previous call, and two
\* different defined codes give different strings
StrerrorStable ==
    prev.msg # NoMsg =>
        /\ prev.code = errnum => prev.msg = msg
        /\ (prev.code # errnum /\ prev.code \in DefinedCodes /\ errnum \in DefinedCodes)
               => prev.msg # msg

\* C7, as amended: gai_strerror returns a non-empty string, the same on every
\* call, for each of the twelve codes -1 .. -12, distinct codes having distinct
\* strings; for 0 it returns "Error 0"; for every other integer it returns
\* "Unrecognized error number".
C7_StrerrorAmended ==
    StrerrorReturned =>
        /\ errnum \in DefinedCodes => msg # "" /\ msg # "Unrecognized error number"
        /\ errnum = 0 => msg = "Error 0"
        /\ (errnum \notin DefinedCodes /\ errnum # 0) => msg = "Unrecognized error number"
        /\ StrerrorStable

\* C7 as stated: every integer outside -1 .. -12, 0 included, gives
\* "Unrecognized error number".
C7_StrerrorOriginal ==
    StrerrorReturned =>
        /\ errnum \in DefinedCodes => msg # "" /\ msg # "Unrecognized error number"
        /\ errnum \notin DefinedCodes => msg = "Unrecognized error number"
        /\ StrerrorStable

\* a call with EAI_SYSTEM has returned, after a call with -999 gave the fixed string
C7_Witness ==
    /\ StrerrorReturned
    /\ errnum = EAI_SYSTEM
    /\ msg = "System error"
    /\ prev = [code |-> FarErr, msg |-> "Unrecognized error number"]

-----------------------------------------------------------------------------
(* Properties of getnameinfo (specification SpecNi)                        *)

\* the texts expected for the addresses and ports the calls are made with
NiHostText(a) ==
    CASE a = <<192, 168, 1, 1>> -> <<"1", "9", "2", ".", "1", "6", "8", ".", "1", ".", "1">>
      [] a = <<0, 0, 0, 0>> -> <<"0", ".", "0", ".", "0", ".", "0">>
      [] a = <<255, 255, 255, 255>> -> S_bcast

NiServText(p) ==
    CASE p = htons(0) -> <<"0">>
      [] p = htons(80) -> <<"8", "0">>
      [] p = htons(8080) -> <<"8", "0", "8", "0">>
      [] p = htons(65535) -> <<"6", "5", "5", "3", "5">>

NiValidCall ==
    /\ ni.called
    /\ ni.salen >= 16
    /\ ni.sa.sa_family = AF_INET
    /\ ni.flags \in 0..31

NiNameRequired ==
    ni.hostp /\ ni.flags \in {f \in 0..31 : (f \div 8) % 2 = 1 /\ f % 2 = 0}

NiHostShort == ni.hostp /\ ni.hostlen < Len(NiHostText(ni.sa.sin_addr)) + 1
NiServShort == ni.servp /\ ni.servlen < Len(NiServText(ni.sa.sin_port)) + 1

NiResults ==
    /\ (NiHostShort \/ NiServShort) => ni.ret = EAI_OVERFLOW
    /\ ~(NiHostShort \/ NiServShort) =>
          /\ ni.ret = 0
          /\ ni.hostp => ni.host = Str(NiHostText(ni.sa.sin_addr))
          /\ ni.servp => ni.serv = Str(NiServText(ni.sa.sin_port))

\* C8, as amended: with a valid IPv4 address and recognized flags, unless
\* NAME_REQUIRED is set without NUMERIC_HOST and a host buffer is supplied (the
\* call then fails with NONAME and writes nothing), getnameinfo fails with
\* OVERFLOW whenever a supplied buffer's capacity is less than its text plus
\* the terminator, and otherwise returns 0 with host the dotted-decimal address
\* and service the decimal port; in every call with a capacity >= 0 it writes
\* no index at or beyond that capacity, and it writes nothing to a buffer that
\* was not supplied.
C8_NameInfoAmended ==
    /\ NiValidCall =>
          IF NiNameRequired
          THEN ni.ret = EAI_NONAME /\ ni.hostW = {} /\ ni.servW = {}
          ELSE NiResults
    /\ ni.called =>
          /\ ni.hostlen >= 0 => \A k \in ni.hostW : k < ni.hostlen
          /\ ni.servlen >= 0 => \A k \in ni.servW : k < ni.servlen
          /\ ~ni.hostp => ni.hostW = {}
          /\ ~ni.servp => ni.servW = {}

\* C8 as stated: OVERFLOW or success for every recognized flag set, and no
\* write at or beyond the capacity for every capacity value.
C8_NameInfoOriginal ==
    /\ NiValidCall => NiResults
    /\ ni.called =>
          /\ \A k \in ni.hostW : k < ni.hostlen
          /\ \A k \in ni.servW : k < ni.servlen

\* 192.168.1.1 into a buffer of 11: OVERFLOW, indices 0 .. 10 written
C8_Witness ==
    /\ NiValidCall
    /\ ~NiNameRequired
    /\ ni.sa.sin_addr = <<192, 168, 1, 1>>
    /\ ni.hostp
    /\ ni.hostlen = 11
    /\ ni.ret = EAI_OVERFLOW
    /\ ni.hostW = 0..10

-----------------------------------------------------------------------------
(* Properties of getaddrinfo and freeaddrinfo (specification Spec)         *)

\* getaddrinfo has returned and its results are still on record
Returned == gai.op = "getaddrinfo" /\ gai.pc = "idle"

\* the records reached from p through ai_next, at most n of them
RECURSIVE ListFrom(_, _)
ListFrom(p, n) ==
    IF p = NULL \/ p = Stale \/ n = 0 THEN <<>>
    ELSE <<p>> \o ListFrom(mem[p].ai_next, n - 1)

ResultList == ListFrom(res, brk)

HintSocktype == IF gai.hints = NoHints THEN 0 ELSE gai.hints[1].ai_socktype
HintProtocol == IF gai.hints = NoHints THEN 0 ELSE gai.hints[1].ai_protocol
HintFlags == IF gai.hints = NoHints THEN 0 ELSE gai.hints[1].ai_flags
HintFamily == IF gai.hints = NoHints THEN 0 ELSE gai.hints[1].ai_family

IsRecord(p, socktype, protocol) ==
    /\ mem[p].ai_socktype = socktype
    /\ mem[p].ai_protocol = protocol

\* C1: a successful getaddrinfo returns exactly one TCP record for socktype
\* STREAM, exactly one UDP record for socktype DGRAM, and for an unspecified
\* socktype (or no hints) exactly two records, (STREAM, TCP) then (DGRAM, UDP),
\* the second one's ai_next being NULL.
C1_ListShape ==
    (Returned /\ gai.ret = 0) =>
        /\ HintSocktype = SOCK_STREAM =>
              Len(ResultList) = 1 /\ IsRecord(ResultList[1], SOCK_STREAM, IPPROTO_TCP)
        /\ HintSocktype = SOCK_DGRAM =>
              Len(ResultList) = 1 /\ IsRecord(ResultList[1], SOCK_DGRAM, IPPROTO_UDP)
        /\ HintSocktype = 0 =>
              /\ Len(ResultList) = 2
              /\ IsRecord(ResultList[1], SOCK_STREAM, IPPROTO_TCP)
              /\ IsRecord(ResultList[2], SOCK_DGRAM, IPPROTO_UDP)
              /\ mem[ResultList[2]].ai_next = NULL

\* a call without hints has returned two records, the first linked to the second
C1_Witness ==
    /\ Returned
    /\ gai.ret = 0
    /\ gai.hints = NoHints
    /\ Len(ResultList) = 2
    /\ mem[ResultList[1]].ai_next = ResultList[2]

\* C2: whenever getaddrinfo returns an error *res is NULL, whatever it held
\* before, and whenever it returns 0 *res is a list head.
C2_ResNullOnError ==
    Returned =>
        /\ gai.ret # 0 => res = NULL
        /\ gai.ret = 0 => res # NULL /\ res \in live

\* a malloc call of the running getaddrinfo returned NULL
AllocFailed == gai.failAt # 0 /\ gai.allocs >= gai.failAt

\* C3: when an allocation fails while the records are built, getaddrinfo
\* returns SYSTEM with errno ENOMEM, no block the call allocated is still
\* live, and no record is reachable from *res.
C3_AllocFailureRollsBack ==
    (Returned /\ AllocFailed) =>
        /\ gai.ret = EAI_SYSTEM
        /\ errno = ENOMEM
        /\ gai.made \cap live = {}
        /\ res = NULL

\* C4: freeaddrinfo (NULL) frees nothing, and freeaddrinfo of a list that
\* getaddrinfo returned frees every block of the list exactly once.
C4_FreeReleasesAll ==
    gai.op = "freeaddrinfo" =>
        /\ ~dfree
        /\ gai.arg = NULL => live = gai.live_before
        /\ gai.arg # NULL => live = gai.live_before \ gai.made

\* the hints pass the checks of getaddrinfo
ValidHints ==
    /\ HintFlags \in 0..7
    /\ HintFamily \in {0, 2}
    /\ HintSocktype \in 0..3
    /\ ~(HintSocktype = 1 /\ HintProtocol \notin {0, 6})
    /\ ~(HintSocktype = 2 /\ HintProtocol \notin {0, 17})

\* the address a dotted-decimal node names
LiteralAddr(node) ==
    CASE node = Str(S_1234) -> <<1, 2, 3, 4>>
      [] node = Str(S_bcast) -> <<255, 255, 255, 255>>

\* C5: for every dotted-decimal literal N, 255.255.255.255 included, and valid
\* hints, getaddrinfo (N, "0") succeeds without a hostname lookup and every
\* record's address is family IPv4, port 0, address N.
C5_NumericNode ==
    (Returned /\ gai.node \in {Str(S_1234), Str(S_bcast)} /\ gai.service = Str(S_0)
        /\ ValidHints /\ ~AllocFailed) =>
        /\ gai.ret = 0
        /\ gai.lookups = 0
        /\ ResultList # <<>>
        /\ \A k \in 1..Len(ResultList) :
              LET a == mem[mem[ResultList[k]].ai_addr]
              IN  a.sin_family = AF_INET /\ a.sin_port = 0
                      /\ a.sin_addr = LiteralAddr(gai.node)

\* the error the hints alone call for, 0 when they are valid
HintsVerdict ==
    IF HintFlags \notin 0..7 THEN EAI_BADFLAGS
    ELSE IF HintFamily \notin {0, 2} THEN EAI_FAMILY
    ELSE IF HintSocktype \notin 0..3 THEN EAI_SOCKTYPE
    ELSE IF ~ValidHints THEN EAI_SERVICE
    ELSE 0

\* the service strings with trailing characters or a value above 65535
ServiceTextBad == gai.service \in {Str(S_80abc), Str(S_99999)}

\* the nodes inet_addr does not convert: a name, and 255.255.255.255
NodeNeedsLookup == gai.node \in {Str(S_host), Str(S_bcast)}

NumericHostOnly == (HintFlags \div 4) % 2 = 1

LookupGaveIPv4 == gai.entry.ok /\ gai.entry.h_length = 4 /\ gai.entry.h_addrtype = AF_INET

HintErrorsFirst ==
    HintsVerdict # 0 =>
        gai.ret = HintsVerdict /\ gai.lookups = 0 /\ gai.allocs = 0 /\ gai.made = {}

\* C6, as amended: the errors of the hints (BADFLAGS, FAMILY, SOCKTYPE, and
\* SERVICE for a socktype and protocol that disagree) are returned before any
\* lookup and any allocation and depend on the hints alone; SERVICE for a bad
\* service string is returned before any allocation but after the node is
\* resolved: with a NULL or numeric node it is returned without a lookup, with
\* a node that needs a lookup the lookup is made first (unless NUMERIC_HOST_ONLY
\* is set) and SERVICE is returned only when it gave an IPv4 entry, the
\* lookup's own error otherwise.
C6_ValidationOrderAmended ==
    Returned =>
        /\ HintErrorsFirst
        /\ gai.ret = EAI_SERVICE => gai.allocs = 0 /\ gai.made = {}
        /\ (HintsVerdict = 0 /\ ServiceTextBad /\ ~NodeNeedsLookup) =>
              gai.ret = EAI_SERVICE /\ gai.lookups = 0
        /\ (HintsVerdict = 0 /\ ServiceTextBad /\ NodeNeedsLookup /\ ~NumericHostOnly) =>
              gai.lookups = 1 /\ (gai.ret = EAI_SERVICE <=> LookupGaveIPv4)
        /\ (HintsVerdict = 0 /\ ServiceTextBad /\ NodeNeedsLookup /\ NumericHostOnly) =>
              gai.lookups = 0 /\ gai.ret # EAI_SERVICE

\* C6 as stated: a bad service string gives SERVICE before any lookup and any
\* allocation, whatever the node.
C6_ValidationOrderOriginal ==
    Returned =>
        /\ HintErrorsFirst
        /\ (HintsVerdict = 0 /\ ServiceTextBad) =>
              gai.ret = EAI_SERVICE /\ gai.lookups = 0 /\ gai.allocs = 0

\* "host" with service "80abc": the lookup was made, then SERVICE returned
C6_Witness ==
    /\ Returned
    /\ gai.node = Str(S_host)
    /\ gai.service = Str(S_80abc)
    /\ gai.lookups = 1
    /\ gai.ret = EAI_SERVICE

\* C9: with a protocol hint and no socktype a successful call returns exactly
\* one record, of that protocol; a socktype whose protocol disagrees with the
\* protocol hint gives SERVICE; no record of another protocol than the hinted
\* one is returned.
C9_ProtocolFilter ==
    Returned =>
        /\ (gai.ret = 0 /\ HintSocktype = 0 /\ HintProtocol \in {IPPROTO_TCP, IPPROTO_UDP}) =>
              Len(ResultList) = 1 /\ mem[ResultList[1]].ai_protocol = HintProtocol
        /\ (HintFlags \in 0..7 /\ HintFamily \in {0, 2}
              /\ \/ HintSocktype = SOCK_STREAM /\ HintProtocol = IPPROTO_UDP
                 \/ HintSocktype = SOCK_DGRAM /\ HintProtocol = IPPROTO_TCP) =>
              gai.ret = EAI_SERVICE
        /\ (gai.ret = 0 /\ HintProtocol # 0) =>
              \A k \in 1..Len(ResultList) : mem[ResultList[k]].ai_protocol = HintProtocol

\* C10: a node that is no numeric address, with NUMERIC_HOST_ONLY, makes
\* getaddrinfo fail with NONAME without a lookup, whatever h_errno earlier
\* calls left.
C10_NumericHostOnly ==
    (Returned /\ gai.node = Str(S_host) /\ ValidHints /\ NumericHostOnly) =>
        gai.lookups = 0 /\ gai.ret = EAI_NONAME

\* the same, for calls made after a lookup that failed with TRY_AGAIN
C10_AfterTryAgain ==
    (Returned /\ gai.node = Str(S_host) /\ ValidHints /\ NumericHostOnly
        /\ h_errno = TRY_AGAIN) =>
        gai.lookups = 0 /\ gai.ret = EAI_NONAME

====
